---- MODULE Spec2Model ----
(***************************************************************************)
(* A model of pytensor/tensor/elemwise_cgen.py: the C code that            *)
(* make_checks, compute_output_dims_lengths, make_alloc, make_loop,        *)
(* make_reordered_loop and make_loop_careduce emit, executed on operands   *)
(* drawn from bounded sets.                                                *)
(*                                                                         *)
(* Operands are numbered 0 .. nvars-1 and nesting levels 0 .. nnested-1,   *)
(* as in the source.  Offsets are in elements, relative to PyArray_DATA.   *)
(***************************************************************************)
EXTENDS Integers, Sequences, FiniteSets, TLC

VARIABLES
    emitter,      \* the code that follows make_checks: "alloc", "loop", "reordered", "careduce"
    nvars,        \* number of operands (len(loop_orders))
    nnested,      \* number of nesting levels (len(loop_orders[0]))
    loop_orders,  \* [operand -> [level -> physical dimension or X]]
    ndim,         \* PyArray_NDIM of each operand
    dims,         \* PyArray_DIMS of each operand
    strides,      \* PyArray_STRIDES of each operand, in bytes
    itemsize,     \* sizeof(dtype) of each operand
    olv_index,    \* make_reordered_loop: index of the reference operand
    openmp,       \* the openmp argument of make_loop / make_reordered_loop
    olv,          \* make_alloc: the output buffer %(olv)s: "null", "supplied" or "fresh"
    pc,           \* position in the generated code
    lv,           \* make_checks: the operand whose init block runs next
    ck,           \* make_checks: the comparison that runs next
    n,            \* the C variables <var>_n<index>, once assigned
    err,          \* the Python error that is set, or NoError
    nerrors,      \* how many times an error was set
    out_dims,     \* the C array dims[] / init_totals[] once filled
    nresize,      \* make_alloc: calls of PyArray_Resize
    nalloc,       \* make_alloc: calls of PyArray_EMPTY
    released,     \* make_alloc: whether the supplied buffer was Py_XDECREF'ed
    fortran,      \* make_alloc: whether the fortran argument is non-zero
    stride,       \* the C variables <var>_stride<index>, once assigned
    jump,         \* the C variables <var>_jump<index>_<level>, once assigned
    plan,         \* what the loop emitter put into the code: pragmas, sorted tables
    level,        \* the loop level whose header or update runs next
    ITER,         \* the loop counters ITER_<i>
    iter,         \* the running pointers <var>_iter
    start,        \* history: <var>_iter at the start of the current iteration of each level
    visits,       \* history: what each execution of the innermost task saw
    todo,         \* parallel loop 0: the iterations no execution unit has taken
    unit,         \* parallel loop 0: each execution unit's private state
    shared_writes,\* history: the shared variables written inside the parallel loop
    seen          \* history: what the executions of the innermost task saw, as a set

vars == << emitter, nvars, nnested, loop_orders, ndim, dims, strides, itemsize,
           olv_index, openmp, olv, pc, lv, ck, n, err, nerrors, out_dims,
           nresize, nalloc, released, fortran, stride, jump, plan, level, ITER, iter, start, visits,
           todo, unit, shared_writes, seen >>

par == << todo, unit, shared_writes, seen >>

(***************************************************************************)
(* Bounds of the model.                                                    *)
(***************************************************************************)
MaxM == 3          \* most nesting levels
MaxCells == 4      \* most entries of the loop_orders table (nvars * nnested)
MaxLen == 2        \* dimension lengths are 0 .. MaxLen

Lens == 0 .. MaxLen
ElemStrides == {-2, 1}     \* strides of concrete dimensions, in elements
ItemSizes == {1, 4}        \* sizeof(dtype)
UninitPointers == {-5, 0}  \* what an unassigned <var>_iter may hold

(***************************************************************************)
(* The broadcast marker 'x' of a loop order.                               *)
(***************************************************************************)
X == -1

NoError == [kind |-> "none"]

Operands == 0 .. nvars - 1
Levels == 0 .. nnested - 1

SetMax(S) == CHOOSE m \in S : \A y \in S : y <= m
SetMin(S) == CHOOSE m \in S : \A y \in S : m <= y

RECURSIVE Prod(_, _)
\* the product of f[k] for k in S
Prod(f, S) == IF S = {} THEN 1
              ELSE LET k == SetMin(S) IN f[k] * Prod(f, S \ {k})

RECURSIVE Sum(_, _)
\* the sum of f[k] for k in S
Sum(f, S) == IF S = {} THEN 0
             ELSE LET k == SetMin(S) IN f[k] + Sum(f, S \ {k})

(***************************************************************************)
(* make_checks                                                             *)
(***************************************************************************)
\* the dimensions of a loop order that are not broadcasted
nonx(loop_order) ==
    { loop_order[k] : k \in { k \in DOMAIN loop_order : loop_order[k] # X } }

\* a rank check that is off by one
min_nd_off_by_one(loop_order) == SetMax(nonx(loop_order)) + 2

\* the number of dimensions the operand needs
min_nd(loop_order) == SetMax(nonx(loop_order)) + 1

\* <var>_n<index> = PyArray_DIMS(<var>)[<index>]
VarN(v, index) == dims[v][index]

\* <var>_stride<index> = PyArray_STRIDES(<var>)[<index>] / sizeof(<dtype>)
\* (the strides drawn are multiples of the item size, and small)
VarStride(v, index) == strides[v][index] \div itemsize[v]

RECURSIVE JumpsFromStrideOnly(_, _, _)
\* jumps whose adjust forgets the length of the inner loop
JumpsFromStrideOnly(v, j, adjust) ==
    IF j < 0 THEN << >>
    ELSE LET index == loop_orders[v][j] IN
         IF index # X
         THEN (<<v, j>> :> (VarStride(v, index) - adjust))
              @@ JumpsFromStrideOnly(v, j - 1, VarStride(v, index))
         ELSE (<<v, j>> :> (0 - adjust))
              @@ JumpsFromStrideOnly(v, j - 1, 0)

RECURSIVE JumpsFrom(_, _, _)
\* the jumps of levels j, j-1, .., 0 of operand v, adjust being the distance
\* the pointer moves over one execution of loop j+1
JumpsFrom(v, j, adjust) ==
    IF j < 0 THEN << >>
    ELSE LET index == loop_orders[v][j] IN
         IF index # X
         THEN (<<v, j>> :> (VarStride(v, index) - adjust))
              @@ JumpsFrom(v, j - 1, VarN(v, index) * VarStride(v, index))
         ELSE (<<v, j>> :> (0 - adjust))
              @@ JumpsFrom(v, j - 1, 0)

\* the init block of operand lv: the rank check, then its lengths, strides and jumps
ChecksInitBlock ==
    /\ pc = "checks_init"
    /\ LET lo == loop_orders[lv] IN
       IF nonx(lo) # {} /\ ndim[lv] < min_nd(lo)
       THEN /\ err' = [kind |-> "InsufficientRank"]
            /\ nerrors' = nerrors + 1
            /\ pc' = "fail"
            /\ UNCHANGED << lv, n, stride, jump >>
       ELSE /\ n' = [d \in { <<lv, x>> : x \in nonx(lo) } |-> VarN(lv, d[2])] @@ n
            /\ stride' = [d \in { <<lv, x>> : x \in nonx(lo) } |-> VarStride(lv, d[2])]
                         @@ stride
            /\ jump' = JumpsFrom(lv, nnested - 1, 0) @@ jump
            /\ lv' = lv + 1
            /\ pc' = IF lv + 1 < nvars THEN "checks_init" ELSE "checks_dims"
            /\ UNCHANGED << err, nerrors >>
    /\ UNCHANGED << par, emitter, nvars, nnested, loop_orders, ndim, dims, strides,
                    itemsize, olv_index, openmp, olv, ck, out_dims, nresize,
                    nalloc, released, fortran, plan, level, ITER, iter, start, visits >>

RECURSIVE to_compare_from(_, _)
to_compare_from(i, j) ==
    IF j >= nvars THEN << >>
    ELSE (IF loop_orders[j][i] # X THEN << <<j, loop_orders[j][i]>> >> ELSE << >>)
         \o to_compare_from(i, j + 1)

\* the pairs (operand, dimension of the operand) bound to level i, in operand order
to_compare(i) == to_compare_from(i, 0)

\* comparisons of each pair with the one before it
LevelChecksNeighbours(i) ==
    LET tc == to_compare(i) IN
    IF Len(tc) < 2 THEN << >>
    ELSE [k \in 1 .. Len(tc) - 1 |-> [a |-> tc[k], b |-> tc[k + 1]]]

\* the comparisons emitted for level i: the first pair against each later one
LevelChecks(i) ==
    LET tc == to_compare(i) IN
    IF Len(tc) < 2 THEN << >>
    ELSE [k \in 1 .. Len(tc) - 1 |-> [a |-> tc[1], b |-> tc[k + 1]]]

RECURSIVE ChecksFrom(_)
ChecksFrom(i) == IF i >= nnested THEN << >> ELSE LevelChecks(i) \o ChecksFrom(i + 1)

\* the if statements of the check block, in the order they are emitted
Checks == ChecksFrom(0)

\* the error one failing comparison sets
MismatchError(c) ==
    [kind |-> IF n[c.a] = 1 \/ n[c.b] = 1
              THEN "DisallowedRuntimeBroadcast" ELSE "DimensionMismatch",
     j0 |-> c.a[1], x0 |-> c.a[2], n0 |-> n[c.a],
     j |-> c.b[1], x |-> c.b[2], nj |-> n[c.b]]

\* the check block, one comparison at a time
ChecksDims ==
    /\ pc = "checks_dims"
    /\ IF ck > Len(Checks)
       THEN pc' = "validated" /\ UNCHANGED << ck, err, nerrors >>
       ELSE LET c == Checks[ck] IN
            IF n[c.a] # n[c.b]
            THEN /\ err' = MismatchError(c)
                 /\ nerrors' = nerrors + 1
                 /\ pc' = "fail"
                 /\ UNCHANGED ck
            ELSE /\ ck' = ck + 1
                 /\ UNCHANGED << pc, err, nerrors >>
    /\ UNCHANGED << par, emitter, nvars, nnested, loop_orders, ndim, dims, strides,
                    itemsize, olv_index, openmp, olv, lv, n, out_dims, nresize,
                    nalloc, released, fortran, stride, jump, plan, level, ITER, iter,
                    start, visits >>

(***************************************************************************)
(* compute_output_dims_lengths and make_alloc                              *)
(***************************************************************************)
\* the operands with a concrete binding at level i
Bound(i) == { j \in Operands : loop_orders[j][i] # X }

\* an output length that is left 0 where no operand is bound
OutputDimLengthNoDefault(i) ==
    IF Bound(i) = {} THEN 0
    ELSE LET j == SetMin(Bound(i)) IN n[<<j, loop_orders[j][i]>>]

\* the length of the first non-broadcastable input dimension, or 1
OutputDimLength(i) ==
    IF Bound(i) = {} THEN 1
    ELSE LET j == SetMin(Bound(i)) IN n[<<j, loop_orders[j][i]>>]

compute_output_dims_lengths == [i \in Levels |-> OutputDimLength(i)]

\* the order argument of the PyArray_EMPTY call made when no buffer was supplied
AllocOrder == fortran

\* the order argument of the PyArray_EMPTY call made after a failed resize
ReallocOrder == FALSE

\* what PyArray_EMPTY(nd, dims, type, order) returns: an array or NULL
PyArray_EMPTY(order) ==
    { [state |-> "null"],
      [state |-> "fresh", shape |-> out_dims, fortran |-> order] }

\* npy_intp dims[nd]; init_dims
AllocDims ==
    /\ pc = "validated"
    /\ emitter = "alloc"
    /\ out_dims' = compute_output_dims_lengths
    /\ pc' = "alloc"
    /\ UNCHANGED << par, emitter, nvars, nnested, loop_orders, ndim, dims, strides,
                    itemsize, olv_index, openmp, olv, lv, ck, n, err, nerrors,
                    nresize, nalloc, released, fortran, stride, jump, plan,
                    level, ITER, iter, start, visits >>

\* if (!olv) olv = PyArray_EMPTY(nd, dims, type, fortran)
AllocFresh ==
    /\ pc = "alloc"
    /\ olv.state = "null"
    /\ olv' \in PyArray_EMPTY(AllocOrder)
    /\ nalloc' = nalloc + 1
    /\ pc' = "alloc_test"
    /\ UNCHANGED << par, emitter, nvars, nnested, loop_orders, ndim, dims, strides,
                    itemsize, olv_index, openmp, lv, ck, n, err, nerrors,
                    out_dims, nresize, released, fortran, stride, jump, plan,
                    level, ITER, iter, start, visits >>

\* else: PyArray_Resize(olv, &new_dims, 0, NPY_CORDER) succeeds
AllocResized ==
    /\ pc = "alloc"
    /\ olv.state # "null"
    /\ nresize' = nresize + 1
    /\ olv' = [olv EXCEPT !.shape = out_dims]
    /\ pc' = "alloc_test"
    /\ UNCHANGED << par, emitter, nvars, nnested, loop_orders, ndim, dims, strides,
                    itemsize, olv_index, openmp, lv, ck, n, err, nerrors,
                    out_dims, nalloc, released, fortran, stride, jump, plan,
                    level, ITER, iter, start, visits >>

\* else: PyArray_Resize fails: PyErr_Clear, Py_XDECREF(olv), olv = PyArray_EMPTY(.., 0)
AllocReplaced ==
    /\ pc = "alloc"
    /\ olv.state # "null"
    /\ nresize' = nresize + 1
    /\ released' = TRUE
    /\ olv' \in PyArray_EMPTY(ReallocOrder)
    /\ nalloc' = nalloc + 1
    /\ pc' = "alloc_test"
    /\ UNCHANGED << par, emitter, nvars, nnested, loop_orders, ndim, dims, strides,
                    itemsize, olv_index, openmp, lv, ck, n, err, nerrors,
                    out_dims, fortran, stride, jump, plan, level, ITER, iter, start,
                    visits >>

\* a final test that lets a missing buffer through
AllocTestMissing ==
    /\ pc = "alloc_test"
    /\ pc' = "alloc_done"
    /\ UNCHANGED << par, emitter, nvars, nnested, loop_orders, ndim, dims, strides,
                    itemsize, olv_index, openmp, olv, lv, ck, n, err, nerrors,
                    out_dims, nresize, nalloc, released, fortran, stride, jump,
                    plan, level, ITER, iter, start, visits >>

\* if (!olv) fail
AllocTest ==
    /\ pc = "alloc_test"
    /\ IF olv.state = "null"
       THEN /\ err' = [kind |-> "AllocationError"]
            /\ nerrors' = nerrors + 1
            /\ pc' = "fail"
       ELSE /\ pc' = "alloc_done"
            /\ UNCHANGED << err, nerrors >>
    /\ UNCHANGED << par, emitter, nvars, nnested, loop_orders, ndim, dims, strides,
                    itemsize, olv_index, openmp, olv, lv, ck, n, out_dims,
                    nresize, nalloc, released, fortran, stride, jump, plan,
                    level, ITER, iter, start, visits >>

(***************************************************************************)
(* The operands make_checks and make_alloc are run on: any loop order over *)
(* the dimensions 0 .. M-1, any rank up to M, any lengths; the arrays are  *)
(* C-contiguous, of one-byte items.  Dimensions the loop order never reads *)
(* have length 1.                                                          *)
(***************************************************************************)
TableSizes == { s \in (1 .. MaxCells) \X (1 .. MaxM) : s[1] * s[2] <= MaxCells }

CContiguous(shape, size) ==
    [d \in DOMAIN shape |->
        size * Prod(shape, { e \in DOMAIN shape : e > d })]

ShapesFor(order, r) ==
    { [d \in 0 .. r - 1 |-> IF d \in DOMAIN f THEN f[d] ELSE 1] :
        f \in [nonx(order) \cap (0 .. r - 1) -> Lens] }

AnyOperands(M) ==
    UNION { UNION { { [order |-> o, ndim |-> r, dims |-> d] : d \in ShapesFor(o, r) } :
                    r \in 0 .. M } :
            o \in [0 .. M - 1 -> {X} \cup (0 .. M - 1)] }

Buffers == { [state |-> "null"],
             [state |-> "supplied", shape |-> << >>, fortran |-> FALSE] }

InitChecks ==
    /\ emitter = "alloc"
    /\ \E s \in TableSizes :
          /\ nvars = s[1]
          /\ nnested = s[2]
          /\ \E ops \in [0 .. s[1] - 1 -> AnyOperands(s[2])], size \in {1} :
                /\ loop_orders = [j \in 0 .. s[1] - 1 |-> ops[j].order]
                /\ ndim = [j \in 0 .. s[1] - 1 |-> ops[j].ndim]
                /\ dims = [j \in 0 .. s[1] - 1 |-> ops[j].dims]
                /\ itemsize = [j \in 0 .. s[1] - 1 |-> size]
                /\ strides = [j \in 0 .. s[1] - 1 |-> CContiguous(ops[j].dims, size)]
    /\ olv_index = 0
    /\ openmp = FALSE
    /\ fortran \in BOOLEAN
    /\ olv \in Buffers
    /\ pc = "checks_init"
    /\ lv = 0
    /\ ck = 1
    /\ n = << >>
    /\ stride = << >>
    /\ jump = << >>
    /\ err = NoError
    /\ nerrors = 0
    /\ out_dims = << >>
    /\ nresize = 0
    /\ nalloc = 0
    /\ released = FALSE
    /\ plan = << >>
    /\ level = 0
    /\ ITER = << >>
    /\ iter = << >>
    /\ start = << >>
    /\ visits = << >>
    /\ todo = {}
    /\ unit = << >>
    /\ shared_writes = {}
    /\ seen = {}

NextChecks ==
    \/ ChecksInitBlock
    \/ ChecksDims
    \/ AllocDims
    \/ AllocFresh
    \/ AllocResized
    \/ AllocReplaced
    \/ AllocTest

SpecChecks == InitChecks /\ [][NextChecks]_vars

(***************************************************************************)
(* What the loop emitters share.                                           *)
(***************************************************************************)
inputs == << emitter, nvars, nnested, loop_orders, ndim, dims, strides, itemsize,
             olv_index, openmp, fortran >>
checked == << lv, ck, n, stride, jump, err, nerrors >>
allocated == << olv, out_dims, nresize, nalloc, released >>

\* the level before whose loop <var>_iter = PyArray_DATA(<var>) is emitted:
\* the first level at which operand j is not broadcasted, 0 if there is none
PreloopLevel(j) ==
    LET concrete == { i \in Levels : loop_orders[j][i] # X } IN
    IF concrete = {} THEN 0 ELSE SetMin(concrete)

\* the running pointers after the preloop code of level i
preloops(i) ==
    [j \in { j \in Operands : PreloopLevel(j) = i } |-> 0] @@ iter

\* the bound of loop i: the length of the last operand that is not broadcasted
\* at level i, "1" if there is none
suitable_n(i) ==
    IF Bound(i) = {} THEN 1
    ELSE LET j == SetMax(Bound(i)) IN n[<<j, loop_orders[j][i]>>]

(***************************************************************************)
(* make_loop                                                               *)
(***************************************************************************)
\* the levels whose for statement make_loop's loop_over precedes by
\* #pragma omp parallel for
LoopPragmas == IF openmp THEN Levels ELSE {}

\* <dtype> &<var>_i = * ( <var>_iter + ITER_<i> * <var>_jump<index>_<i> ), for
\* the operands whose pointer is assigned, it being the loop counters
LoopUpdate(it, i) ==
    [j \in DOMAIN iter |-> iter[j] + it[i] * jump[<<j, i>>]]

\* the code make_loop returns starts: the preloop code of level 0, then loop 0
LoopEnter ==
    /\ pc = "validated"
    /\ emitter = "loop"
    /\ plan' = [pragmas |-> LoopPragmas]
    /\ iter' = preloops(0)
    /\ ITER' = [i \in Levels |-> 0]
    /\ level' = 0
    /\ pc' = "for"
    /\ UNCHANGED << par, inputs, checked, allocated, start, visits >>

\* one test of the for statement of the current level, and what follows it: an
\* execution of the innermost body, the entry of the next loop, or the exit
LoopFor ==
    /\ pc = "for"
    /\ emitter = "loop"
    /\ IF ITER[level] < suitable_n(level)
       THEN IF level = nnested - 1
            THEN /\ visits' = Append(visits, [ITER |-> ITER, off |-> LoopUpdate(ITER, level)])
                 /\ ITER' = [ITER EXCEPT ![level] = @ + 1]
                 /\ UNCHANGED << iter, level, pc >>
            ELSE /\ iter' = preloops(level + 1)
                 /\ ITER' = [ITER EXCEPT ![level + 1] = 0]
                 /\ level' = level + 1
                 /\ UNCHANGED << visits, pc >>
       ELSE IF level = 0
            THEN /\ pc' = "done"
                 /\ UNCHANGED << iter, ITER, level, visits >>
            ELSE /\ ITER' = [ITER EXCEPT ![level - 1] = @ + 1]
                 /\ level' = level - 1
                 /\ UNCHANGED << iter, visits, pc >>
    /\ UNCHANGED << par, inputs, checked, allocated, plan, start >>

(***************************************************************************)
(* make_reordered_loop                                                     *)
(***************************************************************************)
Abs(a) == IF a < 0 THEN 0 - a ELSE a

\* the vector <ovar>_loops as filled: (abs(stride in bytes), index) per level
OrderLoops ==
    [i \in Levels |->
        LET index == loop_orders[olv_index][i] IN
        << IF index # X THEN Abs(strides[olv_index][index]) ELSE 0, i >>]

\* a comparison that breaks ties towards the lower index
PairLessTiesReversed(a, b) == a[1] < b[1] \/ (a[1] = b[1] /\ a[2] > b[2])

\* operator< of std::pair<int, int>
PairLess(a, b) == a[1] < b[1] \/ (a[1] = b[1] /\ a[2] < b[2])

RECURSIVE SortDescending(_, _)
\* the pairs of S in decreasing order, at positions k, k + 1, ..
SortDescending(S, k) ==
    IF S = {} THEN << >>
    ELSE LET top == CHOOSE a \in S : \A b \in S \ {a} : PairLess(b, a) IN
         (k :> top) @@ SortDescending(S \ {top}, k + 1)

\* std::sort(<ovar>_loops.rbegin(), <ovar>_loops.rend())
SortedLoops == SortDescending({ OrderLoops[i] : i \in Levels }, 0)

\* int TOTAL_<i> = init_totals[<ovar>_loops_it->second], the iterator going forward
Totals(loops) ==
    LET init_totals == compute_output_dims_lengths IN
    [i \in Levels |-> init_totals[loops[i][2]]]

\* get_loop_strides: the stride of operand j at each level of its loop order
init_strides(j) ==
    [i \in Levels |->
        IF loop_orders[j][i] # X THEN stride[<<j, loop_orders[j][i]>>] ELSE 0]

\* an iterator that starts from begin() instead
ForwardIt(loops, k) == loops[k]

\* what <ovar>_loops_rit points to after k increments from rbegin()
ReverseIt(loops, k) == loops[nnested - 1 - k]

\* int <var>_stride_l<j> = init_strides[i][<ovar>_loops_rit->second], j going
\* from nnested - 1 down to 0 as the reverse iterator advances
StrideL(loops, j) ==
    [i \in Levels |-> init_strides(j)[ReverseIt(loops, nnested - 1 - i)[2]]]

\* the levels make_reordered_loop marks with #pragma omp parallel for
ReorderedPragmas == IF openmp THEN {0} ELSE {}

\* <dtype> &<var>_i = * ( <var>_iter + <var>_stride_l<M-1> * ITER_<M-1> + ... )
PointerUpdate(it) ==
    [j \in Operands |->
        iter[j] + Sum([i \in Levels |-> plan.stride_l[j][i] * it[i]], Levels)]

\* the code before the loops: the sorted loop vector, the totals, the strides
\* per level, the pointers; then loop 0 is entered
ReorderedEnter ==
    /\ pc = "validated"
    /\ emitter = "reordered"
    /\ plan' = [pragmas |-> ReorderedPragmas,
                loops |-> SortedLoops,
                TOTAL |-> Totals(SortedLoops),
                stride_l |-> [j \in Operands |-> StrideL(SortedLoops, j)]]
    /\ iter' = [j \in Operands |-> 0]
    /\ ITER' = [i \in Levels |-> 0]
    /\ level' = 0
    /\ pc' = "for"
    /\ UNCHANGED << par, inputs, checked, allocated, start, visits >>

\* one test of the for statement of the current level, and what follows it
ReorderedFor ==
    /\ pc = "for"
    /\ emitter = "reordered"
    /\ IF ITER[level] < plan.TOTAL[level]
       THEN IF level = nnested - 1
            THEN /\ visits' = Append(visits, [ITER |-> ITER, off |-> PointerUpdate(ITER)])
                 /\ ITER' = [ITER EXCEPT ![level] = @ + 1]
                 /\ UNCHANGED << level, pc >>
            ELSE /\ ITER' = [ITER EXCEPT ![level + 1] = 0]
                 /\ level' = level + 1
                 /\ UNCHANGED << visits, pc >>
       ELSE IF level = 0
            THEN /\ pc' = "done"
                 /\ UNCHANGED << ITER, level, visits >>
            ELSE /\ ITER' = [ITER EXCEPT ![level - 1] = @ + 1]
                 /\ level' = level - 1
                 /\ UNCHANGED << visits, pc >>
    /\ UNCHANGED << par, inputs, checked, allocated, plan, iter, start >>

(***************************************************************************)
(* make_loop_careduce                                                      *)
(***************************************************************************)
\* <var>_iter at this moment; an unassigned pointer holds anything
PointerValues ==
    { [j \in Operands |-> IF j \in DOMAIN iter THEN iter[j] ELSE g[j]] :
        g \in [Operands -> UninitPointers] }

\* the code make_loop_careduce returns starts: the preloop code of level 0 and
\* ITER_0 = suitable_n
CareduceEnter ==
    /\ pc = "validated"
    /\ emitter = "careduce"
    /\ plan' = [pragmas |-> {}]
    /\ iter' = preloops(0)
    /\ ITER' = [i \in Levels |-> IF i = 0 THEN suitable_n(0) ELSE 0]
    /\ level' = 0
    /\ pc' = "for"
    /\ UNCHANGED << par, inputs, checked, allocated, start, visits >>

\* one test of the for statement of the current level: an iteration begins (at
\* the innermost level the task runs, else the next loop is entered) or the
\* loop ends
CareduceFor ==
    /\ pc = "for"
    /\ emitter = "careduce"
    /\ IF ITER[level] # 0
       THEN /\ start' \in { (level :> p) @@ start : p \in PointerValues }
            /\ IF level = nnested - 1
               THEN /\ visits' = Append(visits,
                                        [ITER |-> [i \in Levels |->
                                                      suitable_n(i) - ITER[i]],
                                         off |-> iter])
                    /\ pc' = "update"
                    /\ UNCHANGED << iter, ITER, level >>
               ELSE /\ iter' = preloops(level + 1)
                    /\ ITER' = [ITER EXCEPT ![level + 1] = suitable_n(level + 1)]
                    /\ level' = level + 1
                    /\ UNCHANGED << visits, pc >>
       ELSE IF level = 0
            THEN /\ pc' = "done"
                 /\ UNCHANGED << iter, ITER, level, start, visits >>
            ELSE /\ level' = level - 1
                 /\ pc' = "update"
                 /\ UNCHANGED << iter, ITER, start, visits >>
    /\ UNCHANGED << par, inputs, checked, allocated, plan >>

\* <var>_iter += <var>_jump<index>_<i> for every operand
CareduceJumps(i) == [j \in DOMAIN iter |-> iter[j] + jump[<<j, i>>]]

\* the end of the body of the current level: the updates, then ITER_<i>--
CareduceUpdate ==
    /\ pc = "update"
    /\ emitter = "careduce"
    /\ iter' = CareduceJumps(level)
    /\ ITER' = [ITER EXCEPT ![level] = @ - 1]
    /\ pc' = "for"
    /\ UNCHANGED << par, inputs, checked, allocated, plan, level, start, visits >>

(***************************************************************************)
(* The operands the loops are run on: every operand binds each level to a  *)
(* dimension of its own, numbered in level order, or broadcasts it; the    *)
(* lengths of a level agree; strides are multiples of the item size.       *)
(***************************************************************************)
\* the dimension of the operand that level i is bound to, given its bindings
DimOf(b, i) == Cardinality({ k \in DOMAIN b : k < i /\ b[k] # X })

\* the level that dimension d of the operand is bound to
LevelOf(b, d) == CHOOSE i \in DOMAIN b : b[i] # X /\ DimOf(b, i) = d

Rank(b) == Cardinality({ k \in DOMAIN b : b[k] # X })

LoopInputs ==
    /\ \E s \in TableSizes :
          /\ nvars = s[1]
          /\ nnested = s[2]
          /\ \E len \in [0 .. s[2] - 1 -> Lens],
                b \in [0 .. s[1] - 1 -> [0 .. s[2] - 1 -> {X} \cup ElemStrides]],
                size \in ItemSizes :
                /\ loop_orders = [j \in 0 .. s[1] - 1 |->
                                    [i \in 0 .. s[2] - 1 |->
                                        IF b[j][i] = X THEN X ELSE DimOf(b[j], i)]]
                /\ ndim = [j \in 0 .. s[1] - 1 |-> Rank(b[j])]
                /\ dims = [j \in 0 .. s[1] - 1 |->
                              [d \in 0 .. Rank(b[j]) - 1 |-> len[LevelOf(b[j], d)]]]
                /\ itemsize = [j \in 0 .. s[1] - 1 |-> size]
                /\ strides = [j \in 0 .. s[1] - 1 |->
                                 [d \in 0 .. Rank(b[j]) - 1 |->
                                     b[j][LevelOf(b[j], d)] * size]]
          /\ olv_index \in IF emitter = "reordered" THEN 0 .. s[1] - 1 ELSE {0}
    /\ fortran = FALSE
    /\ olv = [state |-> "supplied", shape |-> << >>, fortran |-> FALSE]
    /\ pc = "checks_init"
    /\ lv = 0
    /\ ck = 1
    /\ n = << >>
    /\ stride = << >>
    /\ jump = << >>
    /\ err = NoError
    /\ nerrors = 0
    /\ out_dims = << >>
    /\ nresize = 0
    /\ nalloc = 0
    /\ released = FALSE
    /\ plan = << >>
    /\ level = 0
    /\ ITER = << >>
    /\ iter = << >>
    /\ start = << >>
    /\ visits = << >>
    /\ todo = {}
    /\ unit = << >>
    /\ shared_writes = {}
    /\ seen = {}

InitLoops ==
    /\ emitter \in {"loop", "reordered", "careduce"}
    /\ openmp \in IF emitter = "careduce" THEN {FALSE} ELSE BOOLEAN
    /\ LoopInputs

Next ==
    \/ ChecksInitBlock
    \/ ChecksDims
    \/ LoopEnter
    \/ LoopFor
    \/ ReorderedEnter
    \/ ReorderedFor
    \/ CareduceEnter
    \/ CareduceFor
    \/ CareduceUpdate

Spec == InitLoops /\ [][Next]_vars

(***************************************************************************)
(* Loop 0 under #pragma omp parallel for: its iterations are dealt to the  *)
(* execution units, each iteration runs on one unit, the units interleave. *)
(* ITER_0 is private to a unit, and so is what the body declares (the      *)
(* inner loop counters, the references <var>_i); what is declared before   *)
(* the loop is shared: <var>_iter, the lengths, strides, jumps and totals. *)
(* A pragma on an inner loop opens no further units.                       *)
(***************************************************************************)
NUnits == 2
Units == 1 .. NUnits

Idle == [pc |-> "idle"]

\* the bound of loop i in the emitter that runs
ParBound(i) == IF emitter = "loop" THEN suitable_n(i) ELSE plan.TOTAL[i]

\* what the innermost task of the emitter that runs sees at the counters it
ParVisit(it) ==
    [ITER |-> it,
     off |-> IF emitter = "loop" THEN LoopUpdate(it, nnested - 1)
             ELSE PointerUpdate(it)]

\* the operands whose <var>_iter the code before loop i assigns
ParPreloopWrites(i) ==
    IF emitter = "loop" THEN { j \in Operands : PreloopLevel(j) = i } ELSE {}

\* the code before loop 0, which runs on one unit; then the units start
ParEnter ==
    /\ pc = "validated"
    /\ plan' = IF emitter = "loop"
               THEN [pragmas |-> LoopPragmas]
               ELSE [pragmas |-> ReorderedPragmas,
                     loops |-> SortedLoops,
                     TOTAL |-> Totals(SortedLoops),
                     stride_l |-> [j \in Operands |-> StrideL(SortedLoops, j)]]
    /\ iter' = IF emitter = "loop" THEN preloops(0) ELSE [j \in Operands |-> 0]
    /\ todo' = 0 .. (IF emitter = "loop" THEN suitable_n(0)
                     ELSE Totals(SortedLoops)[0]) - 1
    /\ unit' = [u \in Units |-> Idle]
    /\ pc' = "parallel"
    /\ UNCHANGED << inputs, checked, allocated, level, ITER, start, visits,
                    shared_writes, seen >>

\* unit u takes an iteration of loop 0 and starts its body: at the innermost
\* level the task runs, else the code before loop 1 runs and loop 1 is entered
ParTake(u) ==
    /\ pc = "parallel"
    /\ unit[u].pc = "idle"
    /\ \E k \in todo :
          LET it == [i \in Levels |-> IF i = 0 THEN k ELSE 0] IN
          /\ todo' = todo \ {k}
          /\ IF nnested = 1
             THEN /\ seen' = seen \cup {ParVisit(it)}
                  /\ UNCHANGED << unit, iter, shared_writes >>
             ELSE /\ iter' = IF emitter = "loop" THEN preloops(1) ELSE iter
                  /\ shared_writes' = shared_writes \cup ParPreloopWrites(1)
                  /\ unit' = [unit EXCEPT ![u] = [pc |-> "for", level |-> 1, ITER |-> it]]
                  /\ UNCHANGED seen
    /\ UNCHANGED << inputs, checked, allocated, plan, level, ITER, start, visits, pc >>

\* unit u tests the for statement of its current inner level
ParFor(u) ==
    /\ pc = "parallel"
    /\ unit[u].pc = "for"
    /\ LET l == unit[u].level
           it == unit[u].ITER
       IN  IF it[l] < ParBound(l)
           THEN IF l = nnested - 1
                THEN /\ seen' = seen \cup {ParVisit(it)}
                     /\ unit' = [unit EXCEPT ![u].ITER[l] = @ + 1]
                     /\ UNCHANGED << iter, shared_writes >>
                ELSE /\ iter' = IF emitter = "loop" THEN preloops(l + 1) ELSE iter
                     /\ shared_writes' = shared_writes \cup ParPreloopWrites(l + 1)
                     /\ unit' = [unit EXCEPT ![u].ITER[l + 1] = 0, ![u].level = l + 1]
                     /\ UNCHANGED seen
           ELSE /\ unit' = IF l = 1
                           THEN [unit EXCEPT ![u] = Idle]
                           ELSE [unit EXCEPT ![u].ITER[l - 1] = @ + 1,
                                             ![u].level = l - 1]
                /\ UNCHANGED << iter, shared_writes, seen >>
    /\ UNCHANGED << inputs, checked, allocated, plan, level, ITER, start, visits,
                    todo, pc >>

\* every iteration was taken and has ended
ParEnd ==
    /\ pc = "parallel"
    /\ todo = {}
    /\ \A u \in Units : unit[u].pc = "idle"
    /\ pc' = "done"
    /\ UNCHANGED << inputs, checked, allocated, plan, level, ITER, iter, start,
                    visits, par >>

InitPar ==
    /\ emitter \in {"loop", "reordered"}
    /\ openmp = TRUE
    /\ LoopInputs

NextPar ==
    \/ ChecksInitBlock
    \/ ChecksDims
    \/ ParEnter
    \/ \E u \in Units : ParTake(u)
    \/ \E u \in Units : ParFor(u)
    \/ ParEnd

SpecPar == InitPar /\ [][NextPar]_vars

(***************************************************************************)
(* Validation, output shape and allocation: the claims.                    *)
(***************************************************************************)
ValidationEnded == pc \notin {"checks_init", "checks_dims"}

ValidationFailed ==
    err.kind \in {"InsufficientRank", "DisallowedRuntimeBroadcast", "DimensionMismatch"}

ValidationPassed == ValidationEnded /\ ~ValidationFailed

\* the concrete dimension indices of operand j
ConcreteDims(j) == { loop_orders[j][i] : i \in { i \in Levels : loop_orders[j][i] # X } }

\* operand j has a concrete binding and too few dimensions for it
RankDeficient(j) ==
    /\ ConcreteDims(j) # {}
    /\ \E d \in ConcreteDims(j) : \A e \in ConcreteDims(j) : e <= d /\ ndim[j] < 1 + d

\* the operands concretely bound at level i, and the length each has there
ConcreteAt(i) == { j \in Operands : loop_orders[j][i] # X }
LengthAt(j, i) == dims[j][loop_orders[j][i]]

Mismatch(i) ==
    \E j \in ConcreteAt(i), k \in ConcreteAt(i) : LengthAt(j, i) # LengthAt(k, i)

\* the error the claim describes for a level i that holds a mismatch
DescribedError(i) ==
    LET j0 == CHOOSE j \in ConcreteAt(i) : \A k \in ConcreteAt(i) : j <= k
        differ == { k \in ConcreteAt(i) : LengthAt(k, i) # LengthAt(j0, i) }
        j1 == CHOOSE j \in differ : \A k \in differ : j <= k
    IN  [kind |-> IF LengthAt(j0, i) = 1 \/ LengthAt(j1, i) = 1
                  THEN "DisallowedRuntimeBroadcast" ELSE "DimensionMismatch",
         j0 |-> j0, x0 |-> loop_orders[j0][i], n0 |-> LengthAt(j0, i),
         j |-> j1, x |-> loop_orders[j1][i], nj |-> LengthAt(j1, i)]

\* C4: for operands of sufficient rank the dimension checks succeed exactly
\* when at every level all concretely bound lengths are equal; when they fail
\* exactly one error is set, for the lowest level that holds a mismatch, naming
\* the lowest operand bound there and the lowest operand whose length differs
\* from it, DisallowedRuntimeBroadcast when one of the two lengths is 1 and
\* DimensionMismatch otherwise (so the error is a function of the inputs).
C4_DimensionChecks ==
    (ValidationEnded /\ \A j \in Operands : ~RankDeficient(j)) =>
        LET bad == { i \in Levels : Mismatch(i) } IN
        IF bad = {}
        THEN ValidationPassed
        ELSE /\ pc = "fail"
             /\ nerrors = 1
             /\ err = DescribedError(CHOOSE i \in bad : \A k \in bad : i <= k)

\* three operands bound at one level, the first two equal and the third not
C4_Witness ==
    /\ pc = "fail"
    /\ err.kind = "DimensionMismatch"
    /\ err.j0 = 0
    /\ err.j = 2
    /\ \E i \in Levels : ConcreteAt(i) = {0, 1, 2} /\ Mismatch(i)

\* C5: validation ends with the insufficient-rank error exactly when some
\* operand with a concrete binding has fewer dimensions than 1 + its largest
\* concrete index; an all-broadcast operand never causes it; and when
\* validation passes every concrete index is below the operand's rank.
C5_RankCheck ==
    /\ ValidationEnded =>
          ((err.kind = "InsufficientRank") <=> (\E j \in Operands : RankDeficient(j)))
    /\ (err.kind = "InsufficientRank") =>
          (pc = "fail" /\ ConcreteDims(lv) # {} /\ RankDeficient(lv))
    /\ ValidationPassed =>
          \A j \in Operands : \A d \in ConcreteDims(j) : d < ndim[j]

\* a rank error although an earlier, all-broadcast operand has rank 0
C5_Witness ==
    /\ pc = "fail"
    /\ err.kind = "InsufficientRank"
    /\ lv = 1
    /\ ConcreteDims(0) = {}
    /\ ndim[0] = 0
    /\ ndim[1] = 1
    /\ ConcreteDims(1) = {1}

\* C6: the output length of level i is the length of the lowest operand
\* concretely bound at i, and 1 when no operand is; after validation it is the
\* length of every operand concretely bound at i.
C6_OutputShape ==
    (out_dims # << >>) =>
        /\ DOMAIN out_dims = Levels
        /\ \A i \in Levels :
              /\ ConcreteAt(i) = {} => out_dims[i] = 1
              /\ ConcreteAt(i) # {} =>
                    out_dims[i] =
                        LengthAt(CHOOSE j \in ConcreteAt(i) :
                                     \A k \in ConcreteAt(i) : j <= k, i)
              /\ \A j \in ConcreteAt(i) : LengthAt(j, i) = out_dims[i]

\* loop orders (0, x) over shape (2, 1) and (0, 1) over shape (2, 2) give (2, 2)
C6_Witness ==
    /\ nvars = 2
    /\ nnested = 2
    /\ loop_orders[0] = (0 :> 0) @@ (1 :> X)
    /\ loop_orders[1] = (0 :> 0) @@ (1 :> 1)
    /\ dims[0] = (0 :> 2) @@ (1 :> 1)
    /\ dims[1] = (0 :> 2) @@ (1 :> 2)
    /\ out_dims = (0 :> 2) @@ (1 :> 2)

\* whether a buffer was supplied to the allocation step
Supplied == olv.state = "supplied" \/ released

AllocEnded == pc \in {"alloc_test", "alloc_done"} \/ err.kind = "AllocationError"

\* C9: without a buffer exactly one allocation is attempted; with a buffer a
\* resize is attempted first, a successful resize keeps the buffer and
\* allocates nothing, a failed one releases the buffer and attempts exactly one
\* allocation; a missing buffer after that is an AllocationError with no further
\* attempt; never more than one attempt, never success without a buffer.
C9_Allocation ==
    /\ nalloc <= 1
    /\ nresize <= 1
    /\ AllocEnded =>
          /\ ~Supplied => (nresize = 0 /\ nalloc = 1)
          /\ Supplied => nresize = 1
          /\ olv.state = "supplied" => (nalloc = 0 /\ ~released)
          /\ released => nalloc = 1
    /\ pc = "alloc_done" => olv.state # "null"
    /\ (ValidationPassed /\ pc = "fail") =>
          (err.kind = "AllocationError" /\ olv.state = "null" /\ nerrors = 1)

\* the resize failed, the buffer was released and the fresh allocation failed
C9_Witness ==
    /\ pc = "fail"
    /\ err.kind = "AllocationError"
    /\ released
    /\ nresize = 1
    /\ nalloc = 1

\* C11: every buffer the allocation step freshly allocates has the resolved
\* output shape and the layout selected by the fortran argument, both when no
\* buffer was supplied and when a supplied buffer could not be resized and was
\* replaced.
C11_FreshLayout ==
    olv.state = "fresh" =>
        /\ olv.shape = compute_output_dims_lengths
        /\ olv.fortran = fortran

(***************************************************************************)
(* The loops: the claims.                                                  *)
(***************************************************************************)
\* the stride, in elements, of operand j along level i; 0 where it broadcasts
ElemStrideAt(j, i) ==
    IF loop_orders[j][i] = X THEN 0
    ELSE strides[j][loop_orders[j][i]] \div itemsize[j]

\* the output length of level i
OutLen(i) ==
    IF ConcreteAt(i) = {} THEN 1
    ELSE LengthAt(CHOOSE j \in ConcreteAt(i) : \A k \in ConcreteAt(i) : j <= k, i)

OutSize == Prod([i \in Levels |-> OutLen(i)], Levels)

\* the offset of operand j at the multi-index idx
OffsetAt(j, idx) == Sum([i \in Levels |-> idx[i] * ElemStrideAt(j, i)], Levels)

Running(e) == emitter = e /\ pc \in {"for", "update", "done"}

\* the logical multi-index of a visit of the reordered loop: level l iterates
\* the logical dimension plan.loops[l][2]
Logical(v) ==
    [d \in Levels |-> v.ITER[CHOOSE l \in Levels : plan.loops[l][2] = d]]

\* C1: the plan of make_reordered_loop runs the inner task once per logical
\* multi-index of the output shape, never twice at one multi-index, and at each
\* visit every operand's offset is the sum of index * stride over the logical
\* dimensions, a Broadcast dimension counting 0.
C1_ReorderedVisits ==
    Running("reordered") =>
        /\ \A k \in 1 .. Len(visits) :
              LET idx == Logical(visits[k]) IN
              /\ \A d \in Levels : idx[d] \in 0 .. OutLen(d) - 1
              /\ \A j \in Operands : visits[k].off[j] = OffsetAt(j, idx)
              /\ \A k2 \in 1 .. k - 1 : Logical(visits[k2]) # idx
        /\ pc = "done" => Len(visits) = OutSize

\* two operands, the second the reference, a Broadcast binding, the loops
\* swapped, all four positions visited
C1_Witness ==
    /\ Running("reordered")
    /\ pc = "done"
    /\ nvars = 2
    /\ nnested = 2
    /\ olv_index = 1
    /\ plan.loops[0][2] = 1
    /\ \E i \in Levels : loop_orders[0][i] = X
    /\ \E i \in Levels : loop_orders[0][i] # X
    /\ Len(visits) = 4

\* the k-th multi-index (k from 0) of operand j's index space in row-major order
RowMajorIndex(j, k) ==
    [i \in Levels |->
        (k \div Prod([e \in Levels |-> LengthAt(j, e)], { e \in Levels : e > i }))
            % LengthAt(j, i)]

AllConcrete(j) == \A i \in Levels : loop_orders[j][i] # X

\* C2: in the plan of make_loop, for every operand bound concretely at every
\* level, the k-th execution of the innermost level sees the offset of the k-th
\* multi-index in row-major order, and all positions are seen.
C2_RowMajorOffsets ==
    Running("loop") =>
        \A j \in Operands :
            AllConcrete(j) =>
                /\ \A k \in 1 .. Len(visits) :
                      visits[k].off[j] = OffsetAt(j, RowMajorIndex(j, k - 1))
                /\ pc = "done" =>
                      Len(visits) = Prod([i \in Levels |-> LengthAt(j, i)], Levels)

\* the level outside of which operand j's pointer is re-bound by preloop code
FirstConcrete(j) ==
    IF \A i \in Levels : loop_orders[j][i] = X THEN 0
    ELSE CHOOSE i \in Levels :
            /\ loop_orders[j][i] # X
            /\ \A k \in Levels : loop_orders[j][k] # X => i <= k

\* the adjust that make_checks subtracts in the jump of level i
Adjust(j, i) ==
    IF i = nnested - 1 \/ loop_orders[j][i + 1] = X THEN 0
    ELSE LengthAt(j, i + 1) * ElemStrideAt(j, i + 1)

\* all levels nested inside the current level have run, its jump is not applied
AfterPass == emitter = "careduce" /\ pc = "update"

\* the jump of the current level has just been applied
AfterJump == emitter = "careduce" /\ pc = "for" /\ ITER[level] < OutLen(level)

\* at every execution of the innermost task the pointer is the data base plus
\* the sum of iteration index * stride over the concretely bound levels
CareducePointers ==
    Running("careduce") =>
        /\ \A k \in 1 .. Len(visits) :
              /\ \A i \in Levels : visits[k].ITER[i] \in 0 .. OutLen(i) - 1
              /\ \A j \in Operands :
                    visits[k].off[j] = OffsetAt(j, visits[k].ITER)
              /\ \A k2 \in 1 .. k - 1 : visits[k2].ITER # visits[k].ITER
        /\ pc = "done" => Len(visits) = OutSize

StartOf(j, i) == IF i < FirstConcrete(j) THEN 0 ELSE start[i][j]

C7_LoopOrder ==
    Running("reordered") =>
        LET order == [l \in Levels |-> plan.loops[l][2]]
            mag(d) == Abs(ElemStrideAt(olv_index, d))
        IN  /\ { order[l] : l \in Levels } = Levels
            /\ \A l1 \in Levels : \A l2 \in Levels :
                  l1 < l2 =>
                      \/ mag(order[l1]) > mag(order[l2])
                      \/ mag(order[l1]) = mag(order[l2]) /\ order[l1] > order[l2]
            /\ \A l \in Levels : plan.TOTAL[l] = OutLen(order[l])
            /\ pc = "done" => Len(visits) = OutSize

\* three levels: the largest stride outermost, two equal strides after it with
\* the higher index first
C7_Witness ==
    /\ Running("reordered")
    /\ pc = "done"
    /\ nnested = 3
    /\ AllConcrete(olv_index)
    /\ Abs(ElemStrideAt(olv_index, 0)) = Abs(ElemStrideAt(olv_index, 1))
    /\ Abs(ElemStrideAt(olv_index, 2)) > Abs(ElemStrideAt(olv_index, 0))
    /\ << plan.loops[0][2], plan.loops[1][2], plan.loops[2][2] >> = << 2, 1, 0 >>
    /\ Len(visits) = 8

\* C8: with parallel hinting enabled exactly one loop level carries the hint,
\* the outermost, in the plans of make_loop and of make_reordered_loop.
C8_OnePragmaOutermost ==
    (openmp /\ (Running("loop") \/ Running("reordered"))) => plan.pragmas = {0}

\* what the sequential run of the emitted loops sees at the counters it: every
\* pointer at the data base, to which the code before the loops binds it
SequentialVisit(it) ==
    [ITER |-> it,
     off |-> IF emitter = "loop"
             THEN [j \in Operands |-> it[nnested - 1] * jump[<<j, nnested - 1>>]]
             ELSE [j \in Operands |->
                      Sum([i \in Levels |-> plan.stride_l[j][i] * it[i]], Levels)]]

\* C10: with loop 0 run by several execution units in any interleaving, no
\* variable the units share is written inside the parallel loop body, and each
\* execution of the task sees the offsets the sequential run sees.
C10_NoSharedWrites ==
    pc \in {"parallel", "done"} =>
        /\ shared_writes = {}
        /\ \A v \in seen : v = SequentialVisit(v.ITER)
        /\ pc = "done" => Cardinality(seen) = OutSize

====
